---- MODULE Spec2Model ----
(***************************************************************************)
(* Toaster layer catalogue: LayerSource creation, the per-release source   *)
(* priorities, Layer_Version rows from catalogue syncs and from builds,    *)
(* ProjectLayer rows, and the queries built on them                        *)
(* (Layer_Version.get_equivalents_wpriority, Project.compatible_layer-     *)
(* versions).  orm/models.py is not part of the sources at hand: the       *)
(* queries are modelled from the specification's algorithm (section 4),    *)
(* and the result order from what orm/tests.py asserts.                    *)
(***************************************************************************)
EXTENDS Integers, Sequences, FiniteSets, TLC

\* ---- bounds of the model ----
MaxSources == 3
MaxVersions == 2
MaxPriorityRows == 2
MaxProjectLayers == 1
MaxRows == 3
MaxTableVersions == 2

\* ---- the values the operations draw their inputs from ----
TYPE_LOCAL == "TYPE_LOCAL"
TYPE_LAYERINDEX == "TYPE_LAYERINDEX"
TYPE_IMPORTED == "TYPE_IMPORTED"
SourceTypes == {TYPE_LOCAL, TYPE_LAYERINDEX, TYPE_IMPORTED}
SourceNames == {"a1", "a2"}
LayerNames == {"meta-testlayer", "meta-notvalid"}
Projects == {"p1", "p2"}
Releases == {"r1", "r2"}
\* The priority values the tests give to the sources of a release.
Priorities == {1, 2}

\* Project.release: every project pins one release (create_project).
ProjectRelease == [p \in Projects |-> IF p = "p1" THEN "r1" ELSE "r2"]

\* Layer_Version.layer_source of a build-derived version (None).
NoSource == 0
\* Layer_Version.build of a catalogue version (None).
NoBuild == "None"

VARIABLES
    layersources,    \* LayerSource table, in id order: <<[name, sourcetype]>>
    lastcreate,      \* the last LayerSource.objects.create: its arguments and outcome
    rlsp,            \* ReleaseLayerSourcePriority rows
    layer_versions,  \* Layer_Version table, in id order
    projectlayers,   \* ProjectLayer rows: [project, layercommit]
    table,           \* the class of the table a request has set up
    queryset,        \* self.queryset of the table: the rows it shows
    project_layers,  \* self.project_layers of the table (setup_filters)
    lastcall         \* the last filter call: method, count_only, return value

tablevars == <<table, queryset, project_layers, lastcall>>

vars == <<layersources, lastcreate, rlsp, layer_versions, projectlayers,
          table, queryset, project_layers, lastcall>>

SourceIds == 1..Len(layersources)
VersionIds == 1..Len(layer_versions)

\* ---- LayerSource ----

SourceExists(name, sourcetype) ==
    \E i \in SourceIds : /\ layersources[i].name = name
                         /\ layersources[i].sourcetype = sourcetype

\* The same creation without the uniqueness of (name, sourcetype).
CreateLayerSourceNoUnique(name, sourcetype) ==
    /\ Len(layersources) < MaxSources
    /\ lastcreate' = [name |-> name, sourcetype |-> sourcetype, result |-> "ok"]
    /\ layersources' = Append(layersources,
                              [name |-> name, sourcetype |-> sourcetype])
    /\ UNCHANGED <<rlsp, layer_versions, projectlayers>>
    /\ UNCHANGED tablevars

\* LayerSource.objects.create(name, sourcetype): (name, sourcetype) is unique;
\* the second creation raises IntegrityError and stores nothing.
CreateLayerSource(name, sourcetype) ==
    /\ IF SourceExists(name, sourcetype)
       THEN /\ lastcreate' = [name |-> name, sourcetype |-> sourcetype,
                              result |-> "IntegrityError"]
            /\ UNCHANGED layersources
       ELSE /\ Len(layersources) < MaxSources
            /\ lastcreate' = [name |-> name, sourcetype |-> sourcetype,
                              result |-> "ok"]
            /\ layersources' = Append(layersources,
                                      [name |-> name, sourcetype |-> sourcetype])
    /\ UNCHANGED <<rlsp, layer_versions, projectlayers>>
    /\ UNCHANGED tablevars

\* ---- ReleaseLayerSourcePriority ----

HasPriority(release, s) ==
    \E row \in rlsp : row.release = release /\ row.layer_source = s

\* The priority of source s for the release (one row per release and source).
PriorityOf(release, s) ==
    (CHOOSE row \in rlsp : row.release = release /\ row.layer_source = s).priority

\* ReleaseLayerSourcePriority.objects.create(release, layer_source, priority)
CreatePriority(release, s, priority) ==
    /\ Cardinality(rlsp) < MaxPriorityRows
    /\ ~HasPriority(release, s)
    /\ rlsp' = rlsp \cup {[release |-> release, layer_source |-> s,
                           priority |-> priority]}
    /\ UNCHANGED <<layersources, lastcreate, layer_versions, projectlayers>>
    /\ UNCHANGED tablevars

\* ---- Layer / Layer_Version ----

\* The Layer rows that exist: those some Layer_Version points to.
Layers == {layer_versions[i].layer : i \in VersionIds}

\* A catalogue sync: Layer.objects.create(name, layer_source) (or the layer
\* of that identity found again) and Layer_Version.objects.create(layer,
\* layer_source).
CreateLayerVersion(name, s) ==
    /\ Len(layer_versions) < MaxVersions
    /\ layer_versions' = Append(layer_versions,
           [layer |-> [name |-> name, layer_source |-> s],
            layer_source |-> s, build_project |-> NoBuild])
    /\ UNCHANGED <<layersources, lastcreate, rlsp, projectlayers>>
    /\ UNCHANGED tablevars

\* A completed build of project p: Build.objects.create(project) and
\* Layer_Version.objects.create(layer, build), no layer_source.
BuildLayerVersion(p, layer) ==
    /\ Len(layer_versions) < MaxVersions
    /\ layer_versions' = Append(layer_versions,
           [layer |-> layer, layer_source |-> NoSource, build_project |-> p])
    /\ UNCHANGED <<layersources, lastcreate, rlsp, projectlayers>>
    /\ UNCHANGED tablevars

\* A completed build of project p whose Layer_Version keeps the layer source
\* of its layer (layer_source is nullable for a build-derived version, not
\* null by necessity).
BuildLayerVersionOfSource(p, layer) ==
    /\ Len(layer_versions) < MaxVersions
    /\ layer_versions' = Append(layer_versions,
           [layer |-> layer, layer_source |-> layer.layer_source,
            build_project |-> p])
    /\ UNCHANGED <<layersources, lastcreate, rlsp, projectlayers>>
    /\ UNCHANGED tablevars

\* ---- ProjectLayer ----

\* ProjectLayer.objects.create(project, layercommit)
AddProjectLayer(p, v) ==
    /\ Cardinality(projectlayers) < MaxProjectLayers
    /\ [project |-> p, layercommit |-> v] \notin projectlayers
    /\ projectlayers' = projectlayers \cup {[project |-> p, layercommit |-> v]}
    /\ UNCHANGED <<layersources, lastcreate, rlsp, layer_versions>>
    /\ UNCHANGED tablevars

\* The user removes a layer from the project.
RemoveProjectLayer(p, v) ==
    /\ [project |-> p, layercommit |-> v] \in projectlayers
    /\ projectlayers' = projectlayers \ {[project |-> p, layercommit |-> v]}
    /\ UNCHANGED <<layersources, lastcreate, rlsp, layer_versions>>
    /\ UNCHANGED tablevars

\* ---- the queries ----

IsBuildDerived(v) == layer_versions[v].build_project # NoBuild

\* The candidate test that takes a source prioritised for any release.
IsCandidateAnyRelease(v, N, p) ==
    /\ layer_versions[v].layer.name = N
    /\ \/ /\ layer_versions[v].layer_source # NoSource
          /\ \E r \in Releases : HasPriority(r, layer_versions[v].layer_source)
       \/ /\ IsBuildDerived(v)
          /\ layer_versions[v].build_project = p

\* Candidate test of the equivalence query: the layer name is N, and the
\* version comes from a source prioritised for the project's release or from
\* a build of the project.
IsCandidate(v, N, p) ==
    /\ layer_versions[v].layer.name = N
    /\ \/ /\ layer_versions[v].layer_source # NoSource
          /\ HasPriority(ProjectRelease[p], layer_versions[v].layer_source)
       \/ /\ IsBuildDerived(v)
          /\ layer_versions[v].build_project = p

\* The ids in 1..n that satisfy the candidate test, a version once for its
\* prioritised source and once more for its build.
RECURSIVE CandidatesUpToPerBranch(_, _, _)
CandidatesUpToPerBranch(n, N, p) ==
    IF n = 0 THEN <<>>
    ELSE CandidatesUpToPerBranch(n - 1, N, p)
         \o (IF /\ layer_versions[n].layer.name = N
                /\ layer_versions[n].layer_source # NoSource
                /\ HasPriority(ProjectRelease[p], layer_versions[n].layer_source)
             THEN <<n>> ELSE <<>>)
         \o (IF /\ layer_versions[n].layer.name = N
                /\ IsBuildDerived(n)
                /\ layer_versions[n].build_project = p
             THEN <<n>> ELSE <<>>)

\* The ids in 1..n that satisfy the candidate test, in id order.
RECURSIVE CandidatesUpTo(_, _, _)
CandidatesUpTo(n, N, p) ==
    IF n = 0 THEN <<>>
    ELSE IF IsCandidate(n, N, p)
         THEN Append(CandidatesUpTo(n - 1, N, p), n)
         ELSE CandidatesUpTo(n - 1, N, p)

Candidates(N, p) == CandidatesUpTo(Len(layer_versions), N, p)

\* The order with the smaller priority value first.
ComesBeforeAscending(a, b, p) ==
    LET sa == layer_versions[a].layer_source
        sb == layer_versions[b].layer_source
        r == ProjectRelease[p]
    IN  /\ sa # NoSource /\ HasPriority(r, sa)
        /\ \/ sb = NoSource
           \/ ~HasPriority(r, sb)
           \/ PriorityOf(r, sa) < PriorityOf(r, sb)

\* The order with the versions without a layer source first.
ComesBeforeBuildFirst(a, b, p) ==
    LET sa == layer_versions[a].layer_source
        sb == layer_versions[b].layer_source
        r == ProjectRelease[p]
    IN  /\ sb # NoSource /\ HasPriority(r, sb)
        /\ \/ sa = NoSource
           \/ ~HasPriority(r, sa)
           \/ PriorityOf(r, sa) > PriorityOf(r, sb)

\* The result order, as the tests assert it: the version of the source with
\* the larger priority value first ([lver2, lver] with priorities 2 and 1),
\* a version without a layer source (from a build) after the catalogue
\* versions ([lver, lvb]).
ComesBefore(a, b, p) ==
    LET sa == layer_versions[a].layer_source
        sb == layer_versions[b].layer_source
        r == ProjectRelease[p]
    IN  /\ sa # NoSource /\ HasPriority(r, sa)
        /\ \/ sb = NoSource
           \/ ~HasPriority(r, sb)
           \/ PriorityOf(r, sa) > PriorityOf(r, sb)

\* x put into the ordered sequence s, after the elements it does not come
\* before (versions of equal rank stay in id order).
InsertOrdered(s, x, p) ==
    LET pos == IF \E i \in 1..Len(s) : ComesBefore(x, s[i], p)
               THEN CHOOSE i \in 1..Len(s) :
                        /\ ComesBefore(x, s[i], p)
                        /\ \A j \in 1..(i - 1) : ~ComesBefore(x, s[j], p)
               ELSE Len(s) + 1
    IN  SubSeq(s, 1, pos - 1) \o <<x>> \o SubSeq(s, pos, Len(s))

RECURSIVE OrderByPriority(_, _)
OrderByPriority(s, p) ==
    IF s = <<>> THEN <<>>
    ELSE InsertOrdered(OrderByPriority(SubSeq(s, 1, Len(s) - 1), p), s[Len(s)], p)

\* The query that puts the version asked about into its own result.
get_equivalents_with_self(v, p) ==
    LET c == Candidates(layer_versions[v].layer.name, p)
    IN  OrderByPriority(IF \E i \in 1..Len(c) : c[i] = v THEN c ELSE <<v>> \o c, p)

\* Layer_Version.get_equivalents_wpriority(project): the candidates named as
\* the version's layer, ordered.
get_equivalents_wpriority(v, p) ==
    OrderByPriority(Candidates(layer_versions[v].layer.name, p), p)

\* The test that takes every catalogue version, whatever the release.
IsCompatibleAnySource(v, p) ==
    layer_versions[v].layer_source # NoSource

\* A version the project's release offers: its source is prioritised for the
\* release, and no build-derived version of the project with the same layer
\* name stands before it in the order of the equivalence query.
IsCompatible(v, p) ==
    /\ layer_versions[v].layer_source # NoSource
    /\ HasPriority(ProjectRelease[p], layer_versions[v].layer_source)
    /\ ~\E b \in VersionIds :
           /\ IsBuildDerived(b)
           /\ layer_versions[b].build_project = p
           /\ layer_versions[b].layer.name = layer_versions[v].layer.name
           /\ ComesBefore(b, v, p)

\* The ids in 1..n that are compatible with the project, in id order.
RECURSIVE CompatibleUpTo(_, _)
CompatibleUpTo(n, p) ==
    IF n = 0 THEN <<>>
    ELSE IF IsCompatible(n, p)
         THEN Append(CompatibleUpTo(n - 1, p), n)
         ELSE CompatibleUpTo(n - 1, p)

\* Project.compatible_layerversions()
compatible_layerversions(p) == CompatibleUpTo(Len(layer_versions), p)

\* Project.projectlayer_equivalent_set(): the versions the ProjectLayer rows of
\* the project point to, each expanded to its equivalence result, united.
projectlayer_equivalent_set(p) ==
    UNION {{get_equivalents_wpriority(pl.layercommit, p)[i] :
                i \in 1..Len(get_equivalents_wpriority(pl.layercommit, p))} :
           pl \in {x \in projectlayers : x.project = p}}

\* ---- the tables of toastergui ----

\* Q(field = value): a query node with one condition.
Q(field, value) == [children |-> {[field |-> field, value |-> value]}]

\* Python's `a and b` on two Q objects: a when a is falsy (a Q without
\* conditions), b otherwise.  It is not the conjunction a & b.
PyAnd(a, b) == IF a.children = {} THEN a ELSE b

\* The row satisfies every condition of the query node.
QMatches(row, q) == \A c \in q.children : row[c.field] = c.value

\* LayerMachinesTable.setup_queryset / LayerRecipesTable.setup_queryset:
\* ProjectLayer.objects.filter(Q(project=pid) and Q(layercommit=layerid)).count()
in_prj(pid, layerid) ==
    Cardinality({pl \in projectlayers :
                    QMatches(pl, PyAnd(Q("project", pid), Q("layercommit", layerid)))})

\* ---- the in-project filters of the tables ----

TableVersions == 1..MaxTableVersions

\* Rows of Machine (or Recipe): each belongs to one layer version.
MachineRows == {[id |-> i, layer_version |-> v] : i \in 1..MaxRows, v \in TableVersions}

\* Rows of Layer_Version, by id.
LayerVersionRows == {[id |-> v] : v \in TableVersions}

\* queryset.filter(layer_version__in=self.project_layers) for the tables of
\* ProjectFiltersMixin, queryset.filter(projectlayer__in=self.project_layers)
\* for LayersTable, whose project_layers are ProjectLayer rows.
FilterInProject ==
    IF table = "LayersTable"
    THEN {row \in queryset : \E pl \in project_layers : pl.layercommit = row.id}
    ELSE {row \in queryset : row.layer_version \in project_layers}

\* queryset.exclude(...) with the same condition.
ExcludeInProject ==
    IF table = "LayersTable"
    THEN {row \in queryset : ~\E pl \in project_layers : pl.layercommit = row.id}
    ELSE {row \in queryset : row.layer_version \notin project_layers}

\* filter_in_project(count_only): the count is returned, or the filtered
\* rows become self.queryset.
filter_in_project(count_only) ==
    /\ table # "none"
    /\ IF count_only
       THEN /\ lastcall' = [method |-> "filter_in_project", count_only |-> TRUE,
                            returned |-> <<Cardinality(FilterInProject)>>]
            /\ UNCHANGED queryset
       ELSE /\ lastcall' = [method |-> "filter_in_project", count_only |-> FALSE,
                            returned |-> <<>>]
            /\ queryset' = FilterInProject
    /\ UNCHANGED <<table, project_layers>>
    /\ UNCHANGED <<layersources, lastcreate, rlsp, layer_versions, projectlayers>>

\* filter_not_in_project that stores the excluded rows also when it counts.
filter_not_in_project_storing(count_only) ==
    /\ table # "none"
    /\ lastcall' = [method |-> "filter_not_in_project", count_only |-> count_only,
                    returned |-> IF count_only
                                 THEN <<Cardinality(ExcludeInProject)>> ELSE <<>>]
    /\ queryset' = ExcludeInProject
    /\ UNCHANGED <<table, project_layers>>
    /\ UNCHANGED <<layersources, lastcreate, rlsp, layer_versions, projectlayers>>

\* filter_not_in_project(count_only)
filter_not_in_project(count_only) ==
    /\ table # "none"
    /\ IF count_only
       THEN /\ lastcall' = [method |-> "filter_not_in_project", count_only |-> TRUE,
                            returned |-> <<Cardinality(ExcludeInProject)>>]
            /\ UNCHANGED queryset
       ELSE /\ lastcall' = [method |-> "filter_not_in_project", count_only |-> FALSE,
                            returned |-> <<>>]
            /\ queryset' = ExcludeInProject
    /\ UNCHANGED <<table, project_layers>>
    /\ UNCHANGED <<layersources, lastcreate, rlsp, layer_versions, projectlayers>>

\* ---- specifications ----

\* The catalogue: the two layer sources of the tests exist, nothing else.
Init ==
    /\ layersources = <<[name |-> "dummy-layersource", sourcetype |-> TYPE_LOCAL],
                        [name |-> "dummy-layersource2", sourcetype |-> TYPE_LOCAL]>>
    /\ lastcreate = [name |-> "dummy-layersource2", sourcetype |-> TYPE_LOCAL,
                     result |-> "ok"]
    /\ rlsp = {}
    /\ layer_versions = <<>>
    /\ projectlayers = {}
    /\ table = "none"
    /\ queryset = {}
    /\ project_layers = {}
    /\ lastcall = [method |-> "none", count_only |-> FALSE, returned |-> <<>>]

Next ==
    \/ \E r \in Releases, s \in SourceIds, k \in Priorities : CreatePriority(r, s, k)
    \/ \E n \in LayerNames, s \in SourceIds : CreateLayerVersion(n, s)
    \/ \E p \in Projects, l \in Layers : BuildLayerVersion(p, l)
    \/ \E p \in Projects, l \in Layers : BuildLayerVersionOfSource(p, l)
    \/ \E p \in Projects, v \in VersionIds : AddProjectLayer(p, v)
    \/ \E p \in Projects, v \in VersionIds : RemoveProjectLayer(p, v)

Spec == Init /\ [][Next]_vars

\* The catalogue alone: priorities, syncs and builds, no ProjectLayer rows
\* (the equivalence query and compatible_layerversions do not read them).
NextCatalogue ==
    \/ \E r \in Releases, s \in SourceIds, k \in Priorities : CreatePriority(r, s, k)
    \/ \E n \in LayerNames, s \in SourceIds : CreateLayerVersion(n, s)
    \/ \E p \in Projects, l \in Layers : BuildLayerVersion(p, l)
    \/ \E p \in Projects, l \in Layers : BuildLayerVersionOfSource(p, l)

SpecCatalogue == Init /\ [][NextCatalogue]_vars

\* LayerSource creation alone, from an empty table.
InitLayerSource ==
    /\ layersources = <<>>
    /\ lastcreate = [name |-> "", sourcetype |-> "", result |-> "ok"]
    /\ rlsp = {}
    /\ layer_versions = <<>>
    /\ projectlayers = {}
    /\ table = "none"
    /\ queryset = {}
    /\ project_layers = {}
    /\ lastcall = [method |-> "none", count_only |-> FALSE, returned |-> <<>>]

NextLayerSource ==
    \E n \in SourceNames, t \in SourceTypes : CreateLayerSource(n, t)

SpecLayerSource == InitLayerSource /\ [][NextLayerSource]_vars

\* A table after setup_queryset and setup_filters: a MachinesTable with some
\* machines and the layer versions of the project, or a LayersTable with some
\* layer versions and the ProjectLayer rows of the project.
InitTable ==
    /\ layersources = <<[name |-> "dummy-layersource", sourcetype |-> TYPE_LOCAL],
                        [name |-> "dummy-layersource2", sourcetype |-> TYPE_LOCAL]>>
    /\ lastcreate = [name |-> "dummy-layersource2", sourcetype |-> TYPE_LOCAL,
                     result |-> "ok"]
    /\ rlsp = {}
    /\ layer_versions = <<>>
    /\ projectlayers = {}
    /\ table \in {"MachinesTable", "LayersTable"}
    /\ IF table = "LayersTable"
       THEN /\ queryset \in SUBSET LayerVersionRows
            /\ project_layers \in SUBSET {[project |-> "p1", layercommit |-> v] :
                                             v \in TableVersions}
       ELSE /\ queryset \in {q \in SUBSET MachineRows :
                                \A a \in q, b \in q : a.id = b.id => a = b}
            /\ project_layers \in SUBSET TableVersions
    /\ lastcall = [method |-> "none", count_only |-> FALSE, returned |-> <<>>]

NextTable ==
    \/ \E c \in BOOLEAN : filter_in_project(c)
    \/ \E c \in BOOLEAN : filter_not_in_project(c)

SpecTable == InitTable /\ [][NextTable]_vars

\* ---- properties ----

Range(s) == {s[i] : i \in 1..Len(s)}

IsCatalogue(v) == layer_versions[v].layer_source # NoSource

NameOf(v) == layer_versions[v].layer.name

\* C1: for every Layer_Version v and every project p, the result of
\* get_equivalents_wpriority(v, p) is not empty and contains v itself, also
\* when the source of v is not prioritised for the release of p and v does
\* not come from a build of p.
C1_Reflexive ==
    \A p \in Projects, v \in VersionIds :
        /\ get_equivalents_wpriority(v, p) # <<>>
        /\ v \in Range(get_equivalents_wpriority(v, p))

\* C2: for a project p, whenever v2 appears in get_equivalents_wpriority(v1, p)
\* the results for v1 and for v2 are the same sequence; so the result for a
\* build-derived version equals the one for the catalogue version of the layer.
C2_ClassInvariant ==
    \A p \in Projects, v1 \in VersionIds :
        LET r1 == get_equivalents_wpriority(v1, p)
        IN  \A i \in 1..Len(r1) : get_equivalents_wpriority(r1[i], p) = r1

\* A catalogue version and a build-derived version of the same layer are
\* both in one result.
C2_Witness ==
    \E p \in Projects, v1 \in VersionIds, v2 \in VersionIds :
        /\ IsCatalogue(v1) /\ IsBuildDerived(v2)
        /\ layer_versions[v1].layer = layer_versions[v2].layer
        /\ v2 \in Range(get_equivalents_wpriority(v1, p))
        /\ v1 \in Range(get_equivalents_wpriority(v2, p))

\* a and b are catalogue versions, and the priority of a's source for the
\* release of p is smaller than that of b's source.
PriorityPair(p, a, b) ==
    /\ IsCatalogue(a) /\ IsCatalogue(b)
    /\ HasPriority(ProjectRelease[p], layer_versions[a].layer_source)
    /\ HasPriority(ProjectRelease[p], layer_versions[b].layer_source)
    /\ PriorityOf(ProjectRelease[p], layer_versions[a].layer_source)
           < PriorityOf(ProjectRelease[p], layer_versions[b].layer_source)

\* C3 as stated: of two catalogue versions of one layer name, the one whose
\* source has the smaller priority value for the project's release comes
\* first in the result, for every x of their class.
C3_SmallerPriorityFirst ==
    \A p \in Projects, x \in VersionIds :
        LET r == get_equivalents_wpriority(x, p)
        IN  \A i \in 1..Len(r), j \in 1..Len(r) :
                PriorityPair(p, r[i], r[j]) => i < j

\* C3 amended: of two catalogue versions of one layer name, the one whose
\* source has the larger priority value for the project's release comes
\* first in the result, for every x of their class.
C3_LargerPriorityFirst ==
    \A p \in Projects, x \in VersionIds :
        LET r == get_equivalents_wpriority(x, p)
        IN  \A i \in 1..Len(r), j \in 1..Len(r) :
                PriorityPair(p, r[i], r[j]) => j < i

\* Two catalogue versions from sources of different priority in one result.
C3_Witness ==
    \E p \in Projects, x \in VersionIds :
        LET r == get_equivalents_wpriority(x, p)
        IN  \E i \in 1..Len(r), j \in 1..Len(r) : PriorityPair(p, r[i], r[j])

\* C4: in the results for project p, every build-derived version of a layer
\* name that comes from a build of p stands before every catalogue version
\* of that name.
C4_BuildFirst ==
    \A p \in Projects, x \in VersionIds :
        LET r == get_equivalents_wpriority(x, p)
        IN  \A i \in 1..Len(r), j \in 1..Len(r) :
                /\ IsBuildDerived(r[i]) /\ layer_versions[r[i]].build_project = p
                /\ IsCatalogue(r[j]) /\ ~IsBuildDerived(r[j])
                => i < j

\* The versions named as v are exactly those of the set S.
OnlyVersionsOfName(v, S) ==
    {w \in VersionIds : NameOf(w) = NameOf(v)} = S

\* The scenario of test_build_layerversion: project p has added the catalogue
\* version lver of a prioritised source, a build of p has made lvb for the
\* same layer, and the layer name has no other version.
BuildScenario(p, lver, lvb) ==
    /\ [project |-> p, layercommit |-> lver] \in projectlayers
    /\ IsCatalogue(lver)
    /\ HasPriority(ProjectRelease[p], layer_versions[lver].layer_source)
    /\ IsBuildDerived(lvb) /\ layer_versions[lvb].build_project = p
    /\ ~IsCatalogue(lvb)
    /\ layer_versions[lvb].layer = layer_versions[lver].layer
    /\ OnlyVersionsOfName(lver, {lver, lvb})

DualScenario(p, lver, lver2) ==
    /\ PriorityPair(p, lver, lver2)
    /\ layer_versions[lver].layer_source # layer_versions[lver2].layer_source
    /\ ~IsBuildDerived(lver) /\ ~IsBuildDerived(lver2)
    /\ OnlyVersionsOfName(lver, {lver, lver2})

\* C6: two versions of one layer name from two sources of the project's
\* release are both in the result, the one whose source has the larger
\* priority value first: [lver2, lver] with priorities 1 and 2.
C6_DualSource ==
    \A p \in Projects, lver \in VersionIds, lver2 \in VersionIds :
        DualScenario(p, lver, lver2)
            => get_equivalents_wpriority(lver, p) = <<lver2, lver>>

\* The scenario of test_dual_layersource with the priorities 1 and 2.
C6_Witness ==
    \E p \in Projects, lver \in VersionIds, lver2 \in VersionIds :
        /\ DualScenario(p, lver, lver2)
        /\ PriorityOf(ProjectRelease[p], layer_versions[lver].layer_source) = 1
        /\ PriorityOf(ProjectRelease[p], layer_versions[lver2].layer_source) = 2
        /\ lver < lver2

\* C7: when the release of p has no ReleaseLayerSourcePriority row and v is
\* not build-derived, the result for v is exactly [v].
C7_SingletonFallback ==
    \A p \in Projects, v \in VersionIds :
        /\ ~\E row \in rlsp : row.release = ProjectRelease[p]
        /\ ~IsBuildDerived(v)
        => get_equivalents_wpriority(v, p) = <<v>>

\* The sources attached to the release of p.
PrioritisedSources(p) ==
    {row.layer_source : row \in {x \in rlsp : x.release = ProjectRelease[p]}}

NoDuplicateSources ==
    \A i \in SourceIds, j \in SourceIds :
        (/\ layersources[i].name = layersources[j].name
         /\ layersources[i].sourcetype = layersources[j].sourcetype) => i = j

\* What a step of LayerSource creation does: a creation with the (name,
\* sourcetype) of an existing source ends in IntegrityError and leaves the
\* table as it was, any other creation adds the source.
CreateOutcome ==
    IF SourceExists(lastcreate'.name, lastcreate'.sourcetype)
    THEN /\ lastcreate'.result = "IntegrityError"
         /\ layersources' = layersources
    ELSE /\ lastcreate'.result = "ok"
         /\ layersources' = Append(layersources,
                [name |-> lastcreate'.name, sourcetype |-> lastcreate'.sourcetype])

\* C9: creating a LayerSource with the (name, sourcetype) of an existing one
\* fails with IntegrityError and leaves the LayerSources unchanged, so no two
\* LayerSources ever share (name, sourcetype); the same name with another
\* sourcetype is created.
C9_DuplicateRejected == [][CreateOutcome]_vars /\ []NoDuplicateSources

\* A creation was rejected, and two sources with one name and different
\* sourcetypes exist.
C9_Witness ==
    /\ lastcreate.result = "IntegrityError"
    /\ \E i \in SourceIds, j \in SourceIds :
           /\ layersources[i].name = layersources[j].name
           /\ layersources[i].sourcetype # layersources[j].sourcetype

\* v is the one version of the catalogue, from a source of p's release.
SingleVersion(v, p) ==
    /\ VersionIds = {v}
    /\ IsCatalogue(v)
    /\ PrioritisedSources(p) = {layer_versions[v].layer_source}

AddedVersions(p) == {pl.layercommit : pl \in {x \in projectlayers : x.project = p}}

\* C11: projectlayer_equivalent_set(p) is the union of the equivalence results
\* of the versions added to p: it holds every added version and every
\* equivalent of an added version, no version whose layer name is that of no
\* added version, and nothing when p has no ProjectLayer row.
C11_EquivalentSet ==
    \A p \in Projects :
        LET S == projectlayer_equivalent_set(p)
        IN  /\ AddedVersions(p) \subseteq S
            /\ \A v \in AddedVersions(p) : Range(get_equivalents_wpriority(v, p)) \subseteq S
            /\ \A w \in S : \E v \in AddedVersions(p) : NameOf(w) = NameOf(v)
            /\ AddedVersions(p) = {} => S = {}

\* C12: for every project p, every version of projectlayer_equivalent_set(p)
\* is one of compatible_layerversions(p).
C12_SubsetOfCompatible ==
    \A p \in Projects :
        projectlayer_equivalent_set(p) \subseteq Range(compatible_layerversions(p))

\* C13: the result for v and p lists every candidate exactly once, also a
\* version that is both of a prioritised source and from a build of p, and
\* no other version; versions of one source stand in id order.  (The result
\* is an operator of the state, so two calls in one state agree.)
C13_TotalOrder ==
    \A p \in Projects, x \in VersionIds :
        LET r == get_equivalents_wpriority(x, p)
        IN  /\ \A w \in VersionIds :
                   Cardinality({i \in 1..Len(r) : r[i] = w})
                       = IF /\ NameOf(w) = NameOf(x)
                            /\ \/ layer_versions[w].layer_source \in PrioritisedSources(p)
                               \/ layer_versions[w].build_project = p
                         THEN 1 ELSE 0
            /\ \A i \in 1..Len(r), j \in 1..Len(r) :
                   (/\ i < j
                    /\ IsCatalogue(r[i])
                    /\ layer_versions[r[i]].layer_source = layer_versions[r[j]].layer_source)
                   => r[i] < r[j]

\* A result with two versions of one source, one of them also from a build
\* of the project.
C13_Witness ==
    \E p \in Projects, x \in VersionIds :
        LET r == get_equivalents_wpriority(x, p)
        IN  \E i \in 1..Len(r), j \in 1..Len(r) :
                /\ i # j
                /\ layer_versions[r[i]].layer_source \in PrioritisedSources(p)
                /\ layer_versions[r[i]].layer_source = layer_versions[r[j]].layer_source
                /\ layer_versions[r[j]].build_project = p

\* C14: in_prj is the number of ProjectLayer rows of project pid that point to
\* the layer version layerid, so it is 0 when pid has not added that version,
\* even if another project has.
C14_InProject ==
    \A pid \in Projects, layerid \in VersionIds :
        /\ in_prj(pid, layerid)
               = Cardinality({pl \in projectlayers :
                                 pl.project = pid /\ pl.layercommit = layerid})
        /\ layerid \notin AddedVersions(pid) => in_prj(pid, layerid) = 0

\* The two filters split the rows of the table: no row in both, every row in
\* one, the two counts add up to the size of the queryset.
FiltersPartition ==
    /\ FilterInProject \cap ExcludeInProject = {}
    /\ FilterInProject \cup ExcludeInProject = queryset
    /\ Cardinality(FilterInProject) + Cardinality(ExcludeInProject)
           = Cardinality(queryset)

\* What a filter call does to the table: with count_only it returns the count
\* and leaves self.queryset, without it self.queryset becomes the filtered rows.
FilterFrame ==
    LET rows == IF lastcall'.method = "filter_in_project"
                THEN FilterInProject ELSE ExcludeInProject
    IN  IF lastcall'.count_only
        THEN /\ queryset' = queryset
             /\ lastcall'.returned = <<Cardinality(rows)>>
        ELSE /\ queryset' = rows
             /\ lastcall'.returned = <<>>

\* C15: filter_in_project and filter_not_in_project select disjoint rows whose
\* union is the queryset, so their counts add up to its size; a call with
\* count_only leaves self.queryset unchanged, a call without it replaces
\* self.queryset by the filtered rows.
C15_FiltersPartition == []FiltersPartition /\ [][FilterFrame]_vars

\* A count was returned for a queryset with rows in the project and rows
\* outside it.
C15_Witness ==
    /\ lastcall.count_only
    /\ lastcall.returned # <<>>
    /\ FilterInProject # {}
    /\ ExcludeInProject # {}

====
